---- MODULE Spec2Model ----
(***************************************************************************)
(* Model of the reactive triple store (class TripleStore): the fact table, *)
(* the three field indices and their shared Set objects, the global        *)
(* identifier set, the identifier counter, the emissions of an insertion,  *)
(* the cached selection subscriptions, the pattern queries and parametric  *)
(* queries that subscribe to them, the join of two solution streams, an    *)
(* insertion made from within an emission, and the read-only operations.   *)
(***************************************************************************)
EXTENDS Integers, Sequences, FiniteSets, Bags, TLC

\* ------------------------------------------------------------------ bounds
\* Cap on the identifier counter: insertions stop once NEXT_ID reaches it.
MaxId == 3
\* Longest sequence handed to addTriples or to the constructor.
MaxBatch == 2
\* Most queries constructed on one store.
MaxQueries == 1
\* Most emissions of a join recorded.
MaxEmit == 2

\* ------------------------------------------------------------------ inputs
\* Store instances of one process.
Stores == {"g1", "g2"}

\* Field values.  "b", "e", "c" are primitives (strings).  "x#1" and
\* "x#2" are two distinct object references with equal contents, e.g. two
\* evaluations of the array literal ["x"]: a JS Map tells them apart, a
\* structural comparison does not.
ObjectRefs == {"x#1", "x#2"}
Subjects == ObjectRefs
Predicates == {"b", "e"}
Objects == {"c"}
Triple == Subjects \X Predicates \X Objects

\* The contents of a value: what a structural comparison looks at.
Content(v) == IF v \in ObjectRefs THEN "x" ELSE v

\* equiv(a, b) of @thi.ng/api: structural equality.
equiv(a, b) == Content(a) = Content(b)

\* equiv on two triples (arrays of length 3): element-wise equiv.
equivTriple(t, f) == \A i \in 1..3 : equiv(t[i], f[i])

\* The triples that batches (addTriples, the constructor) are built from:
\* two triples that are structurally equal but hold different references.
BatchTriple == {<<"x#1", "b", "c">>, <<"x#2", "b", "c">>}

\* All batches: the sequences over BatchTriple of length 0..MaxBatch.
Batches == UNION {[1..k -> BatchTriple] : k \in 0..MaxBatch}

\* null in a pattern: the wildcard.
Wild == "*"

\* The patterns handed to addPatternQuery.
Patterns == {<<Wild, Wild, Wild>>, <<"x#1", "b", Wild>>, <<"x#1", "b", "c">>}

Min(S) == CHOOSE x \in S : \A y \in S : x <= y

\* ------------------------------------------------------------------- state
VARIABLES
    NEXT_ID,   \* static TripleStore.NEXT_ID, shared by every store
    live,      \* the stores constructed so far
    triples,   \* triples[g]: the fact table, a sparse array id -> triple
    indexS,    \* indexS[g]: Map subject -> set of ids
    indexP,    \* indexP[g]: Map predicate -> set of ids
    indexO,    \* indexO[g]: Map object -> set of ids
    allIDs,    \* allIDs[g]: the global identifier set
    bound,     \* bound[g][f]: which Set object the index of field f (1..3)
               \* holds under each key
    heap,      \* heap[g]: the Set objects made by store g, object -> contents;
               \* object 0 is the global set
    indexSelections, \* indexSelections[g][f]: the cache of field f (1..3), a
               \* Map key -> selection subscription
    selMade,   \* selMade[g]: how many selection subscriptions were constructed
    queries,   \* queries[g]: the pattern queries of g, in construction order,
               \* each with the inputs its sync node holds and all it emitted
    allSeen,   \* allSeen[g]: all that streamAll delivered to the subscriptions
               \* made on it by the constructor (allSelections)
    joinNode,  \* the sync node made by addQueryJoin: whether it was made, the
               \* latest value of its inputs a and b, and what it emitted
    last,      \* the latest call: [op, st, arg, ret]
    emitted,   \* the emissions of the latest call, in order
    emittedObj, \* the Set objects these emissions carried, in order
    observed,  \* what a subscriber that reads the store at each of these
               \* emissions found there about the fact being inserted (empty
               \* when no such subscriber is attached)
    pre        \* the counter and the stores' fields when the latest call began

vars == <<NEXT_ID, live, triples, indexS, indexP, indexO, allIDs, bound, heap,
          indexSelections, selMade, queries, allSeen, joinNode, last, emitted,
          emittedObj, observed, pre>>

\* The counter and the fields of every store, as one record.
Snapshot ==
    [NEXT_ID |-> NEXT_ID, triples |-> triples, indexS |-> indexS,
     indexP |-> indexP, indexO |-> indexO, allIDs |-> allIDs,
     bound |-> bound, heap |-> heap,
     indexSelections |-> indexSelections, selMade |-> selMade,
     queries |-> queries, allSeen |-> allSeen, joinNode |-> joinNode]

\* The fields of store g as one record.
Graph(g) ==
    [triples |-> triples[g], indexS |-> indexS[g], indexP |-> indexP[g],
     indexO |-> indexO[g], allIDs |-> allIDs[g],
     bound |-> bound[g], heap |-> heap[g],
     indexSelections |-> indexSelections[g], selMade |-> selMade[g],
     queries |-> queries[g], allSeen |-> allSeen[g]]

\* A store right after the field initialisers of the constructor.
EmptyGraph ==
    [triples |-> <<>>, indexS |-> <<>>, indexP |-> <<>>, indexO |-> <<>>,
     allIDs |-> {}, bound |-> <<<<>>, <<>>, <<>>>>, heap |-> (0 :> {}),
     indexSelections |-> <<<<>>, <<>>, <<>>>>, selMade |-> 0,
     queries |-> <<>>, allSeen |-> <<>>]

\* Map.prototype.get: the value stored under a key that is the same value
\* (SameValueZero: reference identity for objects), else undefined.
MapGet(m, k) ==
    IF k \in DOMAIN m THEN [def |-> TRUE, ids |-> m[k]]
                      ELSE [def |-> FALSE, ids |-> {}]

\* Map.prototype.set / array element assignment.
MapSet(m, k, v) == [x \in (DOMAIN m) \cup {k} |-> IF x = k THEN v ELSE m[x]]

\* The contents of the set a map holds under k; empty when k is no key.
Under(m, k) == IF k \in DOMAIN m THEN m[k] ELSE {}

\* The candidate set findInIndices scans: the smallest of the three.
SmallestIndex(s, p, o) ==
    LET ss == Cardinality(s)
        ps == Cardinality(p)
        os == Cardinality(o)
    IN  IF ss < ps
        THEN (IF ss < os THEN s ELSE IF ps < os THEN p ELSE o)
        ELSE (IF ps < os THEN p ELSE IF ss < os THEN s ELSE o)

\* findInIndices: the first id (ids iterate in insertion order, which is
\* ascending) of the smallest candidate set whose fact is equiv to f, or -1.
findInIndices(trs, s, p, o, f) ==
    IF s.def /\ p.def /\ o.def
    THEN LET index == SmallestIndex(s.ids, p.ids, o.ids)
             hits == {id \in index : id \in DOMAIN trs /\ equivTriple(trs[id], f)}
         IN  IF hits = {} THEN -1 ELSE Min(hits)
    ELSE -1

\* has(f)
has(g, f) ==
    findInIndices(g.triples, MapGet(g.indexS, f[1]), MapGet(g.indexP, f[2]),
                  MapGet(g.indexO, f[3]), f) # -1

\* The key of an emission that carries none (the global set).
NoKey == "-"

\* Faulty variant of Emissions: the global set is emitted after the three
\* field events.
Emissions_GlobalLast(all, is, ip, io, t) ==
    << [ch |-> "S", index |-> is, key |-> t[1]],
       [ch |-> "P", index |-> ip, key |-> t[2]],
       [ch |-> "O", index |-> io, key |-> t[3]],
       [ch |-> "ALL", index |-> all, key |-> NoKey] >>

\* The four emissions of a successful insertion, in program order: the
\* global set, then one event per field with the set that received the id.
Emissions(all, is, ip, io, t) ==
    << [ch |-> "ALL", index |-> all, key |-> NoKey],
       [ch |-> "S", index |-> is, key |-> t[1]],
       [ch |-> "P", index |-> ip, key |-> t[2]],
       [ch |-> "O", index |-> io, key |-> t[3]] >>

\* ---------------------------------------------------------------- dataflow
\* What an input of a sync node holds: nothing yet, or a reference to the
\* global set, or a reference to the index set stored under a key.  The sets
\* are shared and mutated in place, so a reference shows the set as it is
\* when it is read.
NoRef == [t |-> "none", key |-> NoKey]
AllRef == [t |-> "all", key |-> NoKey]
IdxRef(k) == [t |-> "idx", key |-> k]

\* The index map of field f (1: subject, 2: predicate, 3: object).
IndexOf(g, f) == IF f = 1 THEN g.indexS ELSE IF f = 2 THEN g.indexP ELSE g.indexO

\* The field whose channel is ch.
FieldOf(ch) == IF ch = "S" THEN 1 ELSE IF ch = "P" THEN 2 ELSE 3

\* The current contents of the set an input of field f refers to.
RefSet(g, f, ref) ==
    IF ref.t = "all" THEN g.allIDs ELSE Under(IndexOf(g, f), ref.key)

\* intersection(a, b) of @thi.ng/associative.
intersection(a, b) == a \cap b

\* asTriples: every id of the set resolved to its stored triple.
asTriples(g, ids) == {g.triples[id] : id \in ids \cap DOMAIN g.triples}

\* The stage after the result channel of query q: asTriples when the query
\* was made with emitTriples, nothing otherwise.
Resolve(g, q, ids) == IF q.emitTriples THEN asTriples(g, ids) ELSE ids

\* Query variables: strings with the prefix "?".
QVars == {"?x", "?y"}
isQVar(v) == v \in QVars

\* The name of a query variable: the string without its prefix.
qvarName(v) == IF v = "?x" THEN "x" ELSE "y"

\* The variable names of a pattern and the positions a name stands in.
VarNames(pat) == {qvarName(pat[i]) : i \in {j \in 1..3 : isQVar(pat[j])}}
VarPos(pat, name) == {i \in 1..3 : isQVar(pat[i]) /\ qvarName(pat[i]) = name}

\* qvarResolver: the resolver of a pattern, or none when the pattern has no
\* query variable.
HasResolver(pat) == \E i \in 1..3 : isQVar(pat[i])

\* resolve(f): the binding record of triple f, variable name -> value of f in
\* the variable's position.  For a name that stands in two positions the
\* record keeps one of the two values: the first or the last, as pick says.
Bind(pat, pick, f) ==
    [name \in VarNames(pat) |->
        LET pos == VarPos(pat, name)
        IN  f[IF pick = "first" THEN Min(pos)
                                ELSE CHOOSE i \in pos : \A j \in pos : j <= i]]

\* Faulty variant of SolutionSet: records with equal contents are collapsed
\* into one.
SolutionSet_ByContent(pat, pick, ts) ==
    [b \in {Bind(pat, pick, f) : f \in ts} |-> 1]

\* The Set built by the stage of addParamQuery from a set of triples: one
\* new record per triple.  The records are distinct objects, so the Set
\* holds every one of them; it is written as the bag of their contents.
SolutionSet(pat, pick, ts) ==
    [b \in {Bind(pat, pick, f) : f \in ts} |->
        Cardinality({f \in ts : Bind(pat, pick, f) = b})]

\* No parametric pattern: the query is a plain pattern query.
NoParam == <<>>

\* The result channel of query q emits ids: the value goes through the
\* stages subscribed to it, asTriples and, for a parametric query, the stage
\* that builds the solutions.
Emit(g, q, ids) ==
    [q EXCEPT !.out = Append(@, Resolve(g, q, ids)),
              !.sols = IF q.param # NoParam
                       THEN Append(@, SolutionSet(q.param, q.pick, asTriples(g, ids)))
                       ELSE @]

\* Faulty variant of queryXform: empty results are filtered out, as in
\* addQueryJoin.
queryXform_Filtered(g, q, in) ==
    IF intersection(intersection(RefSet(g, 1, in[1]), RefSet(g, 2, in[2])),
                    RefSet(g, 3, in[3])) = {}
    THEN q
    ELSE Emit(g, q, intersection(intersection(RefSet(g, 1, in[1]),
                                              RefSet(g, 2, in[2])),
                                 RefSet(g, 3, in[3])))

\* The xform of the sync node of a query, applied to the values in of its
\* three sources: their intersection is emitted, empty or not.
queryXform(g, q, in) ==
    Emit(g, q, intersection(intersection(RefSet(g, 1, in[1]),
                                         RefSet(g, 2, in[2])),
                            RefSet(g, 3, in[3])))

\* The sync node of query q receives ref from its source of field f: it
\* keeps the latest value of each source and, once every source has
\* delivered, emits the intersection of the three on every delivery.
SyncNext(g, q, f, ref) ==
    LET in == [q.in EXCEPT ![f] = ref]
    IN  IF \A i \in 1..3 : in[i].t # "none"
        THEN queryXform(g, [q EXCEPT !.in = in], in)
        ELSE [q EXCEPT !.in = in]

\* Faulty variant of indexSel: the keys are compared with the field name.
indexSel_WrongKey(key, e) == equiv(e.ch, key)

\* Faulty variant of indexSel: the keys are compared with ===.
indexSel_SameRef(key, e) == e.key = key

\* indexSel(key): whether the selection of key passes event e on.
indexSel(key, e) == equiv(e.key, key)

\* Query q after emission e of store g.  The global channel delivers to the
\* subscriptions "s", "p", "o" of allSelections in this order, each feeding
\* the sync nodes of the queries with a wildcard in that field, and to the
\* queries whose result channel is the global channel itself.  A field
\* channel delivers to the selection of every cached key, which passes the
\* index set of the event on to the sync nodes subscribed to it.
DeliverTo(g, q, e) ==
    IF e.ch = "ALL"
    THEN IF q.src = "ALL"
         THEN Emit(g, q, e.index)
         ELSE LET q1 == IF q.pat[1] = Wild THEN SyncNext(g, q, 1, AllRef) ELSE q
                  q2 == IF q.pat[2] = Wild THEN SyncNext(g, q1, 2, AllRef) ELSE q1
              IN  IF q.pat[3] = Wild THEN SyncNext(g, q2, 3, AllRef) ELSE q2
    ELSE LET f == FieldOf(e.ch)
         IN  IF q.src = "sync" /\ q.pat[f] # Wild /\ indexSel(q.pat[f], e)
             THEN SyncNext(g, q, f, IdxRef(e.key))
             ELSE q

\* The selections of field f after event e of the field's channel: each one
\* that passes the event on then holds its index set as its latest value.
SelectionsAfter(sels, e) ==
    [k \in DOMAIN sels |->
        IF indexSel(k, e) THEN [sels[k] EXCEPT !.last = IdxRef(e.key)]
                          ELSE sels[k]]

\* Stream.next(e) on a channel of store g: a synchronous delivery to every
\* subscriber.
Deliver(g, e) ==
    [g EXCEPT !.queries = [i \in DOMAIN g.queries |-> DeliverTo(g, g.queries[i], e)],
              !.allSeen = IF e.ch = "ALL" THEN Append(@, e.index) ELSE @,
              !.indexSelections =
                  IF e.ch = "ALL" THEN @
                  ELSE [@ EXCEPT ![FieldOf(e.ch)] = SelectionsAfter(@, e)]]

\* The emissions es, one after the other.
RECURSIVE DeliverAll(_, _)
DeliverAll(g, es) ==
    IF es = <<>> THEN g ELSE DeliverAll(Deliver(g, Head(es)), Tail(es))

\* What a subscriber finds when it reads store g while emission e of the
\* insertion of t under id is delivered to it: whether the fact table holds
\* t under id, whether id is in the index sets of the fields of t and in
\* the global set, what has(t) answers, whether every id of the emitted set
\* is an id of the fact table, and how many triples asTriples resolves the
\* emitted set to.
View(g, e, id, t) ==
    [table |-> id \in DOMAIN g.triples /\ g.triples[id] = t,
     inS |-> id \in Under(g.indexS, t[1]),
     inP |-> id \in Under(g.indexP, t[2]),
     inO |-> id \in Under(g.indexO, t[3]),
     inAll |-> id \in g.allIDs,
     has |-> has(g, t),
     defined |-> e.index \subseteq DOMAIN g.triples,
     resolved |-> Cardinality(asTriples(g, e.index))]

\* What the subscribers find in store g at each of the emissions es,
\* delivered one after the other: a delivery writes none of the fields
\* they read (Deliver), so each finds the store as it is when the first
\* emission is made.
ViewsAt(g, es, id, t) == [k \in 1..Len(es) |-> View(g, es[k], id, t)]

\* Faulty variant of TakeId: NEXT_ID is read but not incremented.
TakeId_NoIncrement(n) == [id |-> n, next |-> n]

\* The identifier a successful insertion takes (NEXT_ID++), and the counter
\* after it.
TakeId(n) == [id |-> n, next |-> n + 1]

\* Faulty variant of IndexPut: a new set is never stored in the map.
IndexPut_NotStored(m, k, cur, set) ==
    IF cur.def THEN MapSet(m, k, set) ELSE m

\* Faulty variant of IndexPut: the id goes to a copy of an existing set, so
\* the set in the map stays as it was.
IndexPut_Copied(m, k, cur, set) ==
    IF cur.def THEN m ELSE MapSet(m, k, set)

\* One field index map after an insertion under key k.  cur is what the map
\* held under k before (s, p, o of addTriple), set is the set that received
\* the new id (is, ip, io): cur itself, mutated in place, when cur is
\* defined, else a new set, which is then stored under k.  Either way the
\* map then holds set under k.
IndexPut(m, k, cur, set) == MapSet(m, k, set)

\* Faulty variant of SetFor: the id goes to a new Set made from the one
\* found, new Set(s).
SetFor_AlwaysNew(cur, m, k, fresh) == fresh

\* s || new Set(): the Set object that receives the new id, the one the
\* index holds under k when there is one, else a new object.
SetFor(cur, m, k, fresh) == IF cur.def THEN m[k] ELSE fresh

\* !s && index.set(k, is): the index binds k to the object only when it held
\* nothing under k.
BindPut(m, k, cur, obj) == IF cur.def THEN m ELSE MapSet(m, k, obj)

\* Set.add(id) on object obj; an object the heap does not hold yet was just
\* made, with contents base.
HeapAdd(h, obj, base, id) ==
    [x \in (DOMAIN h) \cup {obj} |->
        IF x = obj THEN (IF obj \in DOMAIN h THEN h[obj] ELSE base) \cup {id}
                   ELSE h[x]]

\* The Set objects that receive the id of an insertion: the global set
\* (object 0) and, per field, the set found under the key or a new one.  The
\* objects made for id are numbered 3 * id + 1, + 2, + 3.
SetObjs(g, id, t, s, p, o) ==
    <<0, SetFor(s, g.bound[1], t[1], 3 * id + 1),
         SetFor(p, g.bound[2], t[2], 3 * id + 2),
         SetFor(o, g.bound[3], t[3], 3 * id + 3)>>

\* The fields of store g after t was stored under id; s, p and o are what
\* the indices held under the fields of t.
Stored(g, id, t, s, p, o) ==
    LET objs == SetObjs(g, id, t, s, p, o)
    IN  [g EXCEPT !.triples = MapSet(g.triples, id, t),
                  !.indexS = IndexPut(g.indexS, t[1], s, s.ids \cup {id}),
                  !.indexP = IndexPut(g.indexP, t[2], p, p.ids \cup {id}),
                  !.indexO = IndexPut(g.indexO, t[3], o, o.ids \cup {id}),
                  !.allIDs = g.allIDs \cup {id},
                  !.heap = HeapAdd(HeapAdd(HeapAdd(HeapAdd(@,
                               objs[2], s.ids, id),
                               objs[3], p.ids, id),
                               objs[4], o.ids, id),
                               0, {}, id),
                  !.bound = <<BindPut(@[1], t[1], s, objs[2]),
                              BindPut(@[2], t[2], p, objs[3]),
                              BindPut(@[3], t[3], o, objs[4])>>]

\* Faulty variant of addTriple: the four emissions are made before the fact
\* is stored.
addTriple_EmitFirst(g, n, t) ==
    LET s == MapGet(g.indexS, t[1])
        p == MapGet(g.indexP, t[2])
        o == MapGet(g.indexO, t[3])
    IN  IF findInIndices(g.triples, s, p, o, t) # -1
        THEN [g |-> g, n |-> n, ret |-> FALSE, out |-> <<>>, objs |-> <<>>,
              seen |-> <<>>]
        ELSE LET id == TakeId(n).id
                 out == Emissions(g.allIDs \cup {id}, s.ids \cup {id},
                                  p.ids \cup {id}, o.ids \cup {id}, t)
             IN  [g |-> Stored(DeliverAll(g, out), id, t, s, p, o),
                  n |-> TakeId(n).next,
                  ret |-> TRUE, out |-> out,
                  objs |-> SetObjs(g, id, t, s, p, o),
                  seen |-> ViewsAt(g, out, TakeId(n).id, t)]

\* Faulty variant of addTriple: the duplicate test comes after the
\* emissions, so a rejected call emits the sets it found.
addTriple_CheckLate(g, n, t) ==
    LET s == MapGet(g.indexS, t[1])
        p == MapGet(g.indexP, t[2])
        o == MapGet(g.indexO, t[3])
    IN  IF findInIndices(g.triples, s, p, o, t) # -1
        THEN LET out == Emissions(g.allIDs, s.ids, p.ids, o.ids, t)
             IN  [g |-> DeliverAll(g, out), n |-> n, ret |-> FALSE,
                  out |-> out,
                  objs |-> <<0, g.bound[1][t[1]], g.bound[2][t[2]],
                             g.bound[3][t[3]]>>,
                  seen |-> ViewsAt(g, out, TakeId(n).id, t)]
        ELSE LET id == TakeId(n).id
                 g2 == Stored(g, id, t, s, p, o)
                 out == Emissions(g2.allIDs, s.ids \cup {id}, p.ids \cup {id},
                                  o.ids \cup {id}, t)
             IN  [g |-> DeliverAll(g2, out), n |-> TakeId(n).next,
                  ret |-> TRUE, out |-> out,
                  objs |-> SetObjs(g, id, t, s, p, o),
                  seen |-> ViewsAt(g2, out, id, t)]

\* addTriple(t) on store fields g with counter n: the fields and counter
\* after the call, the return value, the emissions, the Set objects they
\* carry and what the subscribers found in the store at each emission.  The
\* fact is stored first (lines 75-86), then the four emissions are made
\* (lines 87-90).
addTriple(g, n, t) ==
    LET s == MapGet(g.indexS, t[1])
        p == MapGet(g.indexP, t[2])
        o == MapGet(g.indexO, t[3])
    IN  IF findInIndices(g.triples, s, p, o, t) # -1
        THEN [g |-> g, n |-> n, ret |-> FALSE, out |-> <<>>, objs |-> <<>>,
              seen |-> <<>>]
        ELSE LET id == TakeId(n).id
                 g2 == Stored(g, id, t, s, p, o)
                 out == Emissions(g2.allIDs, s.ids \cup {id}, p.ids \cup {id},
                                  o.ids \cup {id}, t)
             IN  [g |-> DeliverAll(g2, out), n |-> TakeId(n).next,
                  ret |-> TRUE, out |-> out,
                  objs |-> SetObjs(g, id, t, s, p, o),
                  seen |-> ViewsAt(g2, out, id, t)]

\* Faulty variant of addTriples, ok = ok && this.addTriple(f): nothing is
\* inserted after the first duplicate.
RECURSIVE addTriples_ShortCircuit(_, _, _)
addTriples_ShortCircuit(g, n, seq) ==
    IF seq = <<>>
    THEN [g |-> g, n |-> n, ret |-> TRUE, out |-> <<>>, objs |-> <<>>,
          seen |-> <<>>]
    ELSE LET r1 == addTriple(g, n, Head(seq))
             r2 == IF r1.ret THEN addTriples_ShortCircuit(r1.g, r1.n, Tail(seq))
                             ELSE [g |-> r1.g, n |-> r1.n, ret |-> FALSE, out |-> <<>>,
                                   objs |-> <<>>, seen |-> <<>>]
         IN  [g |-> r2.g, n |-> r2.n, ret |-> r1.ret /\ r2.ret,
              out |-> r1.out \o r2.out, objs |-> r1.objs \o r2.objs,
              seen |-> r1.seen \o r2.seen]

\* addTriples(seq): every element in order, ok = addTriple(f) && ok.
RECURSIVE addTriples(_, _, _)
addTriples(g, n, seq) ==
    IF seq = <<>>
    THEN [g |-> g, n |-> n, ret |-> TRUE, out |-> <<>>, objs |-> <<>>,
          seen |-> <<>>]
    ELSE LET r1 == addTriple(g, n, Head(seq))
             r2 == addTriples(r1.g, r1.n, Tail(seq))
         IN  [g |-> r2.g, n |-> r2.n, ret |-> r1.ret /\ r2.ret,
              out |-> r1.out \o r2.out, objs |-> r1.objs \o r2.objs,
              seen |-> r1.seen \o r2.seen]

\* The four emissions of the insertion of t as they are when made on store
\* h: each carries a Set object of objs, with the contents it has by then.
EmissionsNow(h, objs, t) ==
    Emissions(h.heap[objs[1]], h.heap[objs[2]], h.heap[objs[3]],
              h.heap[objs[4]], t)

\* addTriple(t) while a subscriber of the channel of emission number at
\* (1: global, 2..4: the fields) reacts to that emission, once, with a
\* synchronous addTriple(t2) on the same store.  The subscriber stands
\* after the queries in the subscriber list of its channel.  The outer call has stored its fact (lines 75-86) and made its
\* emissions up to at when the nested call runs as a whole; the outer call
\* then makes the emissions that remain.  nested tells whether the nested
\* call was made.
addTripleNested(g, n, t, at, t2) ==
    LET s == MapGet(g.indexS, t[1])
        p == MapGet(g.indexP, t[2])
        o == MapGet(g.indexO, t[3])
    IN  IF findInIndices(g.triples, s, p, o, t) # -1
        THEN [g |-> g, n |-> n, ret |-> FALSE, out |-> <<>>, objs |-> <<>>,
              seen |-> <<>>, nested |-> FALSE, nestedRet |-> FALSE]
        ELSE LET id == TakeId(n).id
                 objs == SetObjs(g, id, t, s, p, o)
                 g2 == Stored(g, id, t, s, p, o)
                 head == SubSeq(EmissionsNow(g2, objs, t), 1, at - 1)
                 h1 == DeliverAll(g2, head)
                 eAt == EmissionsNow(h1, objs, t)[at]
                 r == addTriple(Deliver(h1, eAt), TakeId(n).next, t2)
                 rest == SubSeq(EmissionsNow(r.g, objs, t), at + 1, 4)
             IN  [g |-> DeliverAll(r.g, rest), n |-> r.n, ret |-> TRUE,
                  out |-> head \o <<eAt>> \o r.out \o rest,
                  objs |-> SubSeq(objs, 1, at) \o r.objs \o SubSeq(objs, at + 1, 4),
                  seen |-> ViewsAt(g2, head, id, t) \o <<View(h1, eAt, id, t)>>
                              \o r.seen \o ViewsAt(r.g, rest, id, t),
                  nested |-> TRUE, nestedRet |-> r.ret]

\* s == null && p == null && o == null
IsAllWild(pat) == pat[1] = Wild /\ pat[2] = Wild /\ pat[3] = Wild

\* Faulty variant of QuerySource: no shortcut for the all-wildcard pattern.
QuerySource_AlwaysSync(pat) == "sync"

\* The channel the results of a pattern come from: the global channel for
\* the all-wildcard pattern, else a sync node over three selections.
QuerySource(pat) == IF IsAllWild(pat) THEN "ALL" ELSE "sync"

\* A query as constructed: no input has delivered, nothing was emitted;
\* born counts what the global channel had delivered before.  param and
\* pick are the pattern and the resolver of a parametric query.  sel names
\* the selection subscriptions getIndexSelection returned for the concrete
\* fields (0 for a wildcard: the subscription of allSelections).
NewQuery(g, pat, emitTriples, param, pick) ==
    [pat |-> pat, emitTriples |-> emitTriples, src |-> QuerySource(pat),
     in |-> <<NoRef, NoRef, NoRef>>, out |-> <<>>, born |-> Len(g.allSeen),
     param |-> param, pick |-> pick, sols |-> <<>>,
     sel |-> [f \in 1..3 |->
                 IF QuerySource(pat) = "sync" /\ pat[f] # Wild
                 THEN g.indexSelections[f][pat[f]].inst ELSE 0]]

\* A selection subscription as constructed: inst tells the instances of a
\* store apart (the n-th one constructed), last is the value it delivered
\* last.
NewSelection(n) == [inst |-> n, last |-> NoRef]

\* Faulty variant of getIndexSelection: the cache is not consulted.
getIndexSelection_NoLookup(g, f, key) ==
    IF key # Wild
    THEN [g EXCEPT !.indexSelections[f] = MapSet(@, key, NewSelection(g.selMade + 1)),
                   !.selMade = @ + 1]
    ELSE g

\* getIndexSelection(stream, key, id): a concrete key gets a new selection
\* subscription, stored in the cache (a Map), unless the cache holds one;
\* a wildcard uses the subscription of allSelections.
getIndexSelection(g, f, key) ==
    IF key # Wild /\ key \notin DOMAIN g.indexSelections[f]
    THEN [g EXCEPT !.indexSelections[f] = MapSet(@, key, NewSelection(g.selMade + 1)),
                   !.selMade = @ + 1]
    ELSE g

\* The value the source of field f holds when a sync node is wired to it:
\* the global set once the global channel has delivered, the latest value
\* of the key's selection, or none.
SourceLast(g, pat, f) ==
    IF pat[f] = Wild
    THEN (IF g.allSeen # <<>> THEN AllRef ELSE NoRef)
    ELSE g.indexSelections[f][pat[f]].last

\* sync with reset: the sources that hold a value deliver it to the new
\* node, in the order of src.
SyncWire(g, q) ==
    LET replay(qq, f) ==
            IF SourceLast(g, q.pat, f).t = "none" THEN qq
            ELSE SyncNext(g, qq, f, SourceLast(g, q.pat, f))
    IN  replay(replay(replay(q, 1), 2), 3)

\* Faulty variant of submit: a key the index does not hold is entered into
\* it with an empty set.
submit_GetOrCreate(g, f, key) ==
    IF key # Wild /\ key \notin DOMAIN IndexOf(g, f)
    THEN [g EXCEPT !.indexS = IF f = 1 THEN MapSet(@, key, {}) ELSE @,
                   !.indexP = IF f = 2 THEN MapSet(@, key, {}) ELSE @,
                   !.indexO = IF f = 3 THEN MapSet(@, key, {}) ELSE @]
    ELSE IF key # Wild
    THEN [g EXCEPT !.indexSelections[f][key].last = IdxRef(key),
                   !.queries =
            [i \in DOMAIN g.queries |->
                IF g.queries[i].src = "sync" /\ g.queries[i].pat[f] = key
                THEN SyncNext(g, g.queries[i], f, IdxRef(key))
                ELSE g.queries[i]]]
    ELSE g

\* submit(index, stream, key): the set the index holds under a concrete key
\* is pushed into the key's selection, which hands it to every sync node
\* subscribed to it.
submit(g, f, key) ==
    IF key # Wild /\ key \in DOMAIN IndexOf(g, f)
    THEN [g EXCEPT !.indexSelections[f][key].last = IdxRef(key),
                   !.queries =
            [i \in DOMAIN g.queries |->
                IF g.queries[i].src = "sync" /\ g.queries[i].pat[f] = key
                THEN SyncNext(g, g.queries[i], f, IdxRef(key))
                ELSE g.queries[i]]]
    ELSE g

\* The body of addPatternQuery for the query of a parametric pattern param
\* (NoParam for a plain query).
patternQuery(g, pat, emitTriples, param, pick) ==
    IF QuerySource(pat) = "ALL"
    THEN [g EXCEPT !.queries = Append(@, NewQuery(g, pat, emitTriples, param, pick))]
    ELSE LET g1 == getIndexSelection(
                       getIndexSelection(
                           getIndexSelection(g, 1, pat[1]), 2, pat[2]), 3, pat[3])
             g2 == [g1 EXCEPT !.queries =
                        Append(@, SyncWire(g1, NewQuery(g1, pat, emitTriples,
                                                        param, pick)))]
         IN  submit(submit(submit(g2, 1, pat[1]), 2, pat[2]), 3, pat[3])

\* addPatternQuery(id, pat, emitTriples)
addPatternQuery(g, pat, emitTriples) ==
    patternQuery(g, pat, emitTriples, NoParam, "-")

\* Faulty variant of addParamQuery: the pattern query is built before the
\* resolver is tested.
addParamQuery_TestLate(g, pat, pick) ==
    [g |-> patternQuery(g, [i \in 1..3 |-> IF isQVar(pat[i]) THEN Wild ELSE pat[i]],
                        TRUE, pat, pick),
     err |-> ~HasResolver(pat)]

\* addParamQuery(id, pat): the store after the call and whether the call
\* threw (illegalArgs).  Without a resolver it throws before anything is
\* built; else the pattern query of the pattern with its variables replaced
\* by wildcards is built (emitTriples defaults to true) and the stage that
\* builds the solutions is subscribed to it.
addParamQuery(g, pat, pick) ==
    IF ~HasResolver(pat)
    THEN [g |-> g, err |-> TRUE]
    ELSE [g |-> patternQuery(g, [i \in 1..3 |-> IF isQVar(pat[i]) THEN Wild ELSE pat[i]],
                             TRUE, pat, pick),
          err |-> FALSE]

\* A source of a join that has not delivered, and one that delivered v.
NoValue == [has |-> FALSE, val |-> {}]
Value(v) == [has |-> TRUE, val |-> v]

\* join(a, b) of @thi.ng/associative: the natural join of two sets of
\* records, one merged record per pair that agrees on all shared names.
join(a, b) ==
    {[name \in DOMAIN p[1] \cup DOMAIN p[2] |->
         IF name \in DOMAIN p[1] THEN p[1][name] ELSE p[2][name]] :
     p \in {pp \in a \X b :
               \A name \in DOMAIN pp[1] \cap DOMAIN pp[2] :
                  pp[1][name] = pp[2][name]}}

\* Faulty variant of joinXform: the filter stage is missing.
joinXform_NoFilter(j, a, b) == [j EXCEPT !.out = Append(@, join(a, b))]

\* Faulty variant of joinXform: the first input is joined with itself.
joinXform_SelfJoin(j, a, b) ==
    IF Cardinality(join(a, a)) > 0
    THEN [j EXCEPT !.out = Append(@, join(a, a))]
    ELSE j

\* The xform of the join node, comp(map(join), filter(size > 0)), applied to
\* the values a and b: the join is emitted unless it is empty.
joinXform(j, a, b) ==
    IF Cardinality(join(a, b)) > 0
    THEN [j EXCEPT !.out = Append(@, join(a, b))]
    ELSE j

\* addQueryJoin(id, a, b): a sync node over the two inputs.
addQueryJoin == [made |-> TRUE, a |-> NoValue, b |-> NoValue, out |-> <<>>]

\* The join node receives v from input side ("a" or "b"): it keeps the
\* latest value of each input and, once both have delivered, runs its xform
\* on every delivery.
JoinNext(j, side, v) ==
    LET j1 == [j EXCEPT ![side] = Value(v)]
    IN  IF j1.a.has /\ j1.b.has THEN joinXform(j1, j1.a.val, j1.b.val) ELSE j1

\* Writes the fields of store st back and records the call; err tells
\* whether the call threw, seen is what the subscribers that read the store
\* found.
CommitSeen(st, r, op, arg, err, seen) ==
    /\ r.n <= MaxId
    /\ NEXT_ID' = r.n
    /\ triples' = [triples EXCEPT ![st] = r.g.triples]
    /\ indexS' = [indexS EXCEPT ![st] = r.g.indexS]
    /\ indexP' = [indexP EXCEPT ![st] = r.g.indexP]
    /\ indexO' = [indexO EXCEPT ![st] = r.g.indexO]
    /\ allIDs' = [allIDs EXCEPT ![st] = r.g.allIDs]
    /\ bound' = [bound EXCEPT ![st] = r.g.bound]
    /\ heap' = [heap EXCEPT ![st] = r.g.heap]
    /\ indexSelections' = [indexSelections EXCEPT ![st] = r.g.indexSelections]
    /\ selMade' = [selMade EXCEPT ![st] = r.g.selMade]
    /\ queries' = [queries EXCEPT ![st] = r.g.queries]
    /\ allSeen' = [allSeen EXCEPT ![st] = r.g.allSeen]
    /\ last' = [op |-> op, st |-> st, arg |-> arg, ret |-> r.ret, err |-> err]
    /\ emitted' = r.out
    /\ emittedObj' = r.objs
    /\ observed' = seen
    /\ pre' = Snapshot
    /\ UNCHANGED joinNode

\* The same with no subscriber that reads the store.
CommitX(st, r, op, arg, err) == CommitSeen(st, r, op, arg, err, <<>>)

\* A call that returned.
Commit(st, r, op, arg) == CommitX(st, r, op, arg, FALSE)

\* ----------------------------------------------------------------- actions
\* The class is loaded (NEXT_ID = 0); the fields of a store not yet
\* constructed are those the constructor will give it.
Loaded ==
    /\ NEXT_ID = 0
    /\ triples = [g \in Stores |-> <<>>]
    /\ indexS = [g \in Stores |-> <<>>]
    /\ indexP = [g \in Stores |-> <<>>]
    /\ indexO = [g \in Stores |-> <<>>]
    /\ allIDs = [g \in Stores |-> {}]
    /\ bound = [g \in Stores |-> <<<<>>, <<>>, <<>>>>]
    /\ heap = [g \in Stores |-> (0 :> {})]
    /\ indexSelections = [g \in Stores |-> <<<<>>, <<>>, <<>>>>]
    /\ selMade = [g \in Stores |-> 0]
    /\ queries = [g \in Stores |-> <<>>]
    /\ allSeen = [g \in Stores |-> <<>>]
    /\ joinNode = [made |-> FALSE, a |-> NoValue, b |-> NoValue, out |-> <<>>]
    /\ last = [op |-> "none", st |-> "-", arg |-> <<>>, ret |-> FALSE,
               err |-> FALSE]
    /\ emitted = <<>>
    /\ emittedObj = <<>>
    /\ observed = <<>>
    /\ pre = Snapshot

Init ==
    /\ Loaded
    /\ live = {}

\* new TripleStore(seq); an absent or empty argument inserts nothing.  The
\* stores are interchangeable, so "g1" names the one constructed first.  The
\* recorded ret is the outcome of the inner addTriples (the constructor
\* itself discards it).
Construct(st, seq) ==
    /\ st \notin live
    /\ st = "g1" \/ "g1" \in live
    /\ live' = live \cup {st}
    /\ Commit(st, addTriples(EmptyGraph, NEXT_ID, seq), "new", seq)

\* g.addTriple(t)
AddTriple(st, t) ==
    /\ st \in live
    /\ UNCHANGED live
    /\ Commit(st, addTriple(Graph(st), NEXT_ID, t), "addTriple", <<t>>)

\* g.addTriples(seq)
AddTriples(st, seq) ==
    /\ st \in live
    /\ UNCHANGED live
    /\ Commit(st, addTriples(Graph(st), NEXT_ID, seq), "addTriples", seq)

\* The call g.addPatternQuery(id, pat, emitTriples).
CallPatternQuery(st, pat, emitTriples) ==
    /\ st \in live
    /\ UNCHANGED live
    /\ Commit(st, [g |-> addPatternQuery(Graph(st), pat, emitTriples),
                   n |-> NEXT_ID, ret |-> TRUE, out |-> <<>>, objs |-> <<>>,
          seen |-> <<>>],
              "addPatternQuery", <<pat>>)

\* g.addPatternQuery(id, pat, emitTriples), at most MaxQueries queries.
AddPatternQuery(st, pat, emitTriples) ==
    /\ Len(queries[st]) < MaxQueries
    /\ CallPatternQuery(st, pat, emitTriples)

Next ==
    \/ \E st \in Stores, seq \in Batches : Construct(st, seq)
    \/ \E st \in Stores, t \in Triple : AddTriple(st, t)
    \/ \E st \in Stores, seq \in Batches : AddTriples(st, seq)

Spec == Init /\ [][Next]_vars

\* One store, constructed without triples, with pattern queries.
InitQ ==
    /\ Loaded
    /\ live = {"g1"}

NextQ ==
    \/ \E t \in Triple : AddTriple("g1", t)
    \/ \E pat \in Patterns, et \in BOOLEAN : AddPatternQuery("g1", pat, et)

SpecQ == InitQ /\ [][NextQ]_vars

\* g.addParamQuery(id, pat); pick is how the resolver treats a variable name
\* that stands in two positions.  A call that throws builds no query.
CallParamQuery(st, pat, pick) ==
    /\ st \in live
    /\ UNCHANGED live
    /\ LET r == addParamQuery(Graph(st), pat, pick)
       IN  CommitX(st, [g |-> r.g, n |-> NEXT_ID, ret |-> ~r.err, out |-> <<>>,
                        objs |-> <<>>, seen |-> <<>>],
                   "addParamQuery", <<pat>>, r.err)

\* g.addParamQuery(id, pat), at most MaxQueries queries.
AddParamQuery(st, pat, pick) ==
    /\ HasResolver(pat) => Len(queries[st]) < MaxQueries
    /\ CallParamQuery(st, pat, pick)

\* The triples and patterns of the dataflow specification: primitive
\* subjects next to the two object references.
TripleD ==
    {<<"a", "b", "c">>, <<"a", "b", "d">>, <<"a", "e", "c">>,
     <<"x#1", "b", "c">>, <<"x#2", "b", "c">>}

\* Arguments <<pat, emitTriples>> of addPatternQuery.
PatternArgsD ==
    {<<<<"a", "b", Wild>>, FALSE>>, <<<<"a", "b", Wild>>, TRUE>>,
     <<<<"x#1", "b", Wild>>, FALSE>>, <<<<"a", "b", "c">>, FALSE>>,
     <<<<Wild, Wild, Wild>>, FALSE>>}

\* One store, constructed without triples, with pattern queries on it.
InitD ==
    /\ Loaded
    /\ live = {"g1"}

NextD ==
    \/ \E t \in TripleD : AddTriple("g1", t)
    \/ \E a \in PatternArgsD : AddPatternQuery("g1", a[1], a[2])

SpecD == InitD /\ [][NextD]_vars

\* The triples of the specification of parametric queries.
TripleP == {<<"a", "b", "c">>, <<"a", "b", "d">>, <<"x#1", "e", "c">>}

\* Arguments <<pat, pick>> of addParamQuery; the last pattern has no query
\* variable.
ParamArgsP ==
    {<<<<"?x", "b", "?y">>, "first">>, <<<<"?x", "b", Wild>>, "first">>,
     <<<<"?x", "b", "?x">>, "first">>, <<<<"?x", "b", "?x">>, "last">>,
     <<<<"a", "b", "c">>, "first">>}

\* One store, constructed without triples, with parametric queries on it.
InitP ==
    /\ Loaded
    /\ live = {"g1"}

NextP ==
    \/ \E t \in TripleP : AddTriple("g1", t)
    \/ \E a \in ParamArgsP : AddParamQuery("g1", a[1], a[2])

SpecP == InitP /\ [][NextP]_vars

\* The triples and queries of the specification of the selection cache: two
\* keys that are distinct references with equal contents, and the key "b"
\* requested by every query.
TripleC == {<<"x#1", "b", "c">>, <<"x#2", "b", "c">>}
PatternArgsC ==
    {<<<<"x#1", "b", Wild>>, FALSE>>, <<<<"x#2", "b", Wild>>, FALSE>>}
ParamArgsC == {<<<<"?x", "b", Wild>>, "first">>}

\* g.addPatternQuery and g.addParamQuery, one query more than MaxQueries.
AddPatternQueryMore(st, pat, emitTriples) ==
    /\ Len(queries[st]) < MaxQueries + 1
    /\ CallPatternQuery(st, pat, emitTriples)

AddParamQueryMore(st, pat, pick) ==
    /\ Len(queries[st]) < MaxQueries + 1
    /\ CallParamQuery(st, pat, pick)

\* One store, constructed without triples, with several queries that
\* request the same keys.
InitC ==
    /\ Loaded
    /\ live = {"g1"}

NextC ==
    \/ \E t \in TripleC : AddTriple("g1", t)
    \/ \E a \in PatternArgsC : AddPatternQueryMore("g1", a[1], a[2])
    \/ \E a \in ParamArgsC : AddParamQueryMore("g1", a[1], a[2])

SpecC == InitC /\ [][NextC]_vars

\* The solution sets the inputs of a join deliver: input a binds x and y,
\* input b binds y and z.
SolutionsA == SUBSET {[x |-> "a", y |-> "b"], [x |-> "c", y |-> "d"]}
SolutionsB == SUBSET {[y |-> "b", z |-> "e"], [y |-> "d", z |-> "f"]}

\* The store is left alone by a step of the join.
StoreUnchanged ==
    UNCHANGED <<NEXT_ID, live, triples, indexS, indexP, indexO, allIDs, bound,
                heap, indexSelections, selMade, queries, allSeen>>

\* g.addQueryJoin(id, a, b)
AddQueryJoin(st) ==
    /\ st \in live
    /\ ~joinNode.made
    /\ joinNode' = addQueryJoin
    /\ last' = [op |-> "addQueryJoin", st |-> st, arg |-> <<>>, ret |-> TRUE,
                err |-> FALSE]
    /\ emitted' = <<>>
    /\ emittedObj' = <<>>
    /\ observed' = <<>>
    /\ pre' = Snapshot
    /\ StoreUnchanged

\* Input side of the join delivers the solution set v.
Push(side, v) ==
    /\ joinNode.made
    /\ Len(joinNode.out) < MaxEmit
    /\ joinNode' = JoinNext(joinNode, side, v)
    /\ last' = [op |-> "push", st |-> side, arg |-> <<v>>, ret |-> TRUE,
                err |-> FALSE]
    /\ emitted' = <<>>
    /\ emittedObj' = <<>>
    /\ observed' = <<>>
    /\ pre' = Snapshot
    /\ StoreUnchanged

\* One store and a join of two solution streams.
InitJ ==
    /\ Loaded
    /\ live = {"g1"}

NextJ ==
    \/ AddQueryJoin("g1")
    \/ \E v \in SolutionsA : Push("a", v)
    \/ \E v \in SolutionsB : Push("b", v)

SpecJ == InitJ /\ [][NextJ]_vars

\* The triples and the queries of the specification of reentrant
\* insertion.
TripleR == {<<"a", "e", "c">>, <<"x#1", "b", "c">>, <<"x#2", "b", "c">>}
PatternArgsR == {<<<<Wild, "b", Wild>>, FALSE>>}

\* g.addTriple(t) with a subscriber that reacts to emission number at by
\* calling g.addTriple(t2).
AddTripleNested(st, t, at, t2) ==
    /\ st \in live
    /\ UNCHANGED live
    /\ LET r == addTripleNested(Graph(st), NEXT_ID, t, at, t2)
       IN  Commit(st, r, "addTripleNested",
                  <<t, t2, at, r.nested, r.nestedRet>>)

\* One store, constructed without triples, with pattern queries and a
\* subscriber that inserts from within an emission.
InitR ==
    /\ Loaded
    /\ live = {"g1"}

NextR ==
    \/ \E t \in TripleR : AddTriple("g1", t)
    \/ \E a \in PatternArgsR : AddPatternQuery("g1", a[1], a[2])
    \/ \E t, t2 \in TripleR, at \in 1..4 :
          AddTripleNested("g1", t, at, t2)

SpecR == InitR /\ [][NextR]_vars

\* g.addTriple(t) while every channel of the store has a subscriber that
\* reads the store when an emission reaches it.
AddTripleSeen(st, t) ==
    /\ st \in live
    /\ UNCHANGED live
    /\ LET r == addTriple(Graph(st), NEXT_ID, t)
       IN  CommitSeen(st, r, "addTriple", <<t>>, FALSE, r.seen)

\* One store, constructed without triples, with pattern queries and
\* subscribers that read the store.
InitO ==
    /\ Loaded
    /\ live = {"g1"}

NextO ==
    \/ \E t \in Triple : AddTripleSeen("g1", t)
    \/ \E pat \in Patterns, et \in BOOLEAN : AddPatternQuery("g1", pat, et)

SpecO == InitO /\ [][NextO]_vars

\* The arguments of the specification of the read-only operations: a key no
\* fact has in the pattern <<"a", "e", "c">>, a second reference "x#2" to an
\* equal subject, and a pattern without a query variable.
TripleF == {<<"a", "b", "c">>, <<"x#1", "b", "c">>}
HasArgsF == {<<"a", "b", "c">>, <<"x#2", "b", "c">>, <<"a", "e", "c">>}
PatternArgsF ==
    {<<<<"a", "e", Wild>>, TRUE>>, <<<<"x#2", "b", Wild>>, FALSE>>,
     <<<<Wild, Wild, Wild>>, TRUE>>}
ParamArgsF == {<<<<"?x", "b", "?y">>, "first">>, <<<<"a", "b", "c">>, "first">>}

\* g.has(f)
Has(st, f) ==
    /\ st \in live
    /\ UNCHANGED live
    /\ Commit(st, [g |-> Graph(st), n |-> NEXT_ID, ret |-> has(Graph(st), f),
                   out |-> <<>>, objs |-> <<>>, seen |-> <<>>],
              "has", <<f>>)

\* One store with insertions and every operation that only reads the
\* facts.
InitF ==
    /\ Loaded
    /\ live = {"g1"}

NextF ==
    \/ \E t \in TripleF : AddTriple("g1", t)
    \/ \E f \in HasArgsF : Has("g1", f)
    \/ \E a \in PatternArgsF : AddPatternQuery("g1", a[1], a[2])
    \/ \E a \in ParamArgsF : AddParamQuery("g1", a[1], a[2])
    \/ AddQueryJoin("g1")

SpecF == InitF /\ [][NextF]_vars

\* ------------------------------------------------------------------ claims
\* The ids of store g, and the ids of g whose fact has value v in field i.
Ids(g) == DOMAIN triples[g]
IdsWith(g, i, v) == {id \in Ids(g) : triples[g][id][i] = v}

\* The fields of store g when the latest call began.
Before(g) ==
    [triples |-> pre.triples[g], indexS |-> pre.indexS[g],
     indexP |-> pre.indexP[g], indexO |-> pre.indexO[g],
     allIDs |-> pre.allIDs[g], bound |-> pre.bound[g], heap |-> pre.heap[g],
     indexSelections |-> pre.indexSelections[g],
     selMade |-> pre.selMade[g], queries |-> pre.queries[g],
     allSeen |-> pre.allSeen[g]]

\* The fact base of every store is left as it is by a step.
FactBaseUnchanged == UNCHANGED <<NEXT_ID, triples, indexS, indexP, indexO, allIDs>>

\* C1: addTriple(t) right after addTriple(u) on the same store, with t and u
\* structurally equal, returns false and leaves the fact table, the three
\* indices, the global set and the counter as they were.
C1_IdempotentInsert ==
    [][(/\ last.op = "addTriple"
        /\ last'.op = "addTriple"
        /\ last'.st = last.st
        /\ equivTriple(last'.arg[1], last.arg[1]))
       => (last'.ret = FALSE /\ FactBaseUnchanged)]_vars

\* C2: every fact stored (every addTriple that returned true, at once and
\* after any further insertions) is found by has, and its id is in the index
\* set of each of its three field values and in the global set.
C2_Containment ==
    /\ \A g \in live : \A id \in Ids(g) :
          LET t == triples[g][id]
          IN  /\ has(Graph(g), t)
              /\ id \in Under(indexS[g], t[1])
              /\ id \in Under(indexP[g], t[2])
              /\ id \in Under(indexO[g], t[3])
              /\ id \in allIDs[g]
    /\ (last.op = "addTriple" /\ last.ret) =>
          /\ has(Graph(last.st), last.arg[1])
          /\ \E id \in Ids(last.st) : triples[last.st][id] = last.arg[1]

\* An insertion that returned true on a store which already held a fact.
C2_Witness ==
    /\ last.op = "addTriple" /\ last.ret
    /\ Cardinality(Ids(last.st)) >= 2

\* C3: in each field index the set under value v is exactly the set of ids
\* of the stored facts with v in that field (v compared as the index map
\* compares its keys); no key maps to the empty set.
C3_IndexInvariant ==
    \A g \in Stores :
       /\ \A v \in Subjects : Under(indexS[g], v) = IdsWith(g, 1, v)
       /\ \A v \in Predicates : Under(indexP[g], v) = IdsWith(g, 2, v)
       /\ \A v \in Objects : Under(indexO[g], v) = IdsWith(g, 3, v)
       /\ DOMAIN indexS[g] \subseteq Subjects
       /\ DOMAIN indexP[g] \subseteq Predicates
       /\ DOMAIN indexO[g] \subseteq Objects
       /\ \A v \in DOMAIN indexS[g] : indexS[g][v] # {}
       /\ \A v \in DOMAIN indexP[g] : indexP[g][v] # {}
       /\ \A v \in DOMAIN indexO[g] : indexO[g][v] # {}

\* A store with two facts under one key and a second key in the same field.
C3_Witness ==
    \E g \in live : \E v \in DOMAIN indexP[g] :
       /\ Cardinality(indexP[g][v]) >= 2
       /\ Cardinality(DOMAIN indexP[g]) >= 2

\* C4: no two distinct ids of one store refer to structurally-equal triples.
C4_NoEqualFacts ==
    \A g \in Stores : \A i, j \in Ids(g) :
       i # j => ~equivTriple(triples[g][i], triples[g][j])

\* C5: has(t) is true exactly when a triple structurally equal to t is in the
\* fact table (the answer of a scan of the whole table).
C5_HasIffStored ==
    \A g \in live : \A t \in Triple :
       has(Graph(g), t) <=> (\E id \in Ids(g) : equivTriple(triples[g][id], t))

\* C6: an addTriple that returned true made exactly four emissions: the
\* global set on ALL, then {index, key} for the subject on S, the predicate
\* on P and the object on O, each index being the set of that field value,
\* which holds the new id.
C6_EmissionOrder ==
    (last.op = "addTriple" /\ last.ret) =>
       LET g == last.st
           t == last.arg[1]
           id == NEXT_ID - 1
       IN  /\ Len(emitted) = 4
           /\ emitted[1] = [ch |-> "ALL", index |-> allIDs[g], key |-> NoKey]
           /\ emitted[2] = [ch |-> "S", index |-> Under(indexS[g], t[1]), key |-> t[1]]
           /\ emitted[3] = [ch |-> "P", index |-> Under(indexP[g], t[2]), key |-> t[2]]
           /\ emitted[4] = [ch |-> "O", index |-> Under(indexO[g], t[3]), key |-> t[3]]
           /\ \A i \in 1..4 : id \in emitted[i].index
           /\ triples[g][id] = t

\* A successful insertion under keys that already had index sets.
C6_Witness ==
    /\ last.op = "addTriple" /\ last.ret
    /\ Len(emitted) = 4
    /\ Cardinality(emitted[3].index) >= 2

\* The calls addTriple(seq[1]), addTriple(seq[2]), ... made one after the
\* other, none skipped: the store and counter after them, whether all of
\* them returned true, and all their emissions.
RECURSIVE InTurn(_, _, _)
InTurn(g, n, seq) ==
    IF seq = <<>>
    THEN [g |-> g, n |-> n, ret |-> TRUE, out |-> <<>>, objs |-> <<>>,
          seen |-> <<>>]
    ELSE LET r1 == addTriple(g, n, Head(seq))
             r2 == InTurn(r1.g, r1.n, Tail(seq))
         IN  [g |-> r2.g, n |-> r2.n, ret |-> r1.ret /\ r2.ret,
              out |-> r1.out \o r2.out, objs |-> r1.objs \o r2.objs,
              seen |-> r1.seen \o r2.seen]

\* C7: addTriples(seq) leaves the store as the insertions of all its
\* elements in turn leave it, also after a duplicate; it returns true exactly
\* when every one of them returned true, that is when every element took an
\* identifier (true for the empty sequence); a sequence with the same triple
\* twice returns false and the triple is stored once.
C7_AddTriplesAnd ==
    (last.op = "addTriples") =>
       LET g == last.st
           seq == last.arg
           r == InTurn(Before(g), pre.NEXT_ID, seq)
       IN  /\ Graph(g) = r.g
           /\ NEXT_ID = r.n
           /\ emitted = r.out
           /\ last.ret = r.ret
           /\ last.ret = (NEXT_ID - pre.NEXT_ID = Len(seq))
           /\ \A i, j \in 1..Len(seq) :
                 (i < j /\ seq[i] = seq[j]) =>
                    /\ last.ret = FALSE
                    /\ Cardinality({id \in Ids(g) :
                          equivTriple(triples[g][id], seq[i])}) >= 1
                    /\ Cardinality({id \in Ids(g) :
                          triples[g][id] = seq[i]}) <= 1

\* A batch that returned false and yet inserted a fact after its duplicate.
C7_Witness ==
    /\ last.op = "addTriples" /\ ~last.ret
    /\ Len(last.arg) = 2
    /\ Len(emitted) = 4
    /\ emitted[2].key = last.arg[2][1]

\* The ids the latest call added to store g.
NewIds(g) == Ids(g) \ DOMAIN pre.triples[g]

\* C8: a call never changes or removes a stored fact; every new fact gets an
\* id that is at least the counter and greater than every id any store held
\* before, and no id is given twice; the counter advances by one per new
\* fact, so by one on addTriple returning true and not at all on addTriple
\* returning false.
C8_FreshIds ==
    LET allNew == UNION {NewIds(g) : g \in Stores}
    IN  /\ \A g \in Stores : \A id \in DOMAIN pre.triples[g] :
              id \in Ids(g) /\ triples[g][id] = pre.triples[g][id]
        /\ \A id \in allNew :
              /\ id >= pre.NEXT_ID
              /\ \A h \in Stores : \A j \in DOMAIN pre.triples[h] : j < id
        /\ \A g, h \in Stores : g # h => Ids(g) \cap Ids(h) = {}
        /\ \A g \in Stores : \A id \in Ids(g) : id < NEXT_ID
        /\ NEXT_ID = pre.NEXT_ID + Cardinality(allNew)
        /\ last.op = "addTriple" =>
              /\ NEXT_ID = pre.NEXT_ID + (IF last.ret THEN 1 ELSE 0)
              /\ last.ret => NewIds(last.st) = {pre.NEXT_ID}

\* A rejected duplicate after two insertions, one in each store.
C8_Witness ==
    /\ last.op = "addTriple" /\ ~last.ret
    /\ NEXT_ID >= 2
    /\ \A g \in Stores : Ids(g) # {}

\* C9: the ids of every store are 0, 1, 2, ... in sequence, whatever other
\* stores of the process have inserted.
C9_StoreScopedIds ==
    \A g \in live : Ids(g) = 0..(Cardinality(Ids(g)) - 1)

\* The first k ids of store g in the order they were assigned.
FirstIds(g, k) == {id \in allIDs[g] : Cardinality({j \in allIDs[g] : j <= id}) <= k}

\* C10: the channel of an all-wildcard query made with emitTriples = false
\* has emitted exactly what the global channel delivered to a direct
\* subscription since the query was made: one set per successful insertion,
\* none for a duplicate, each the full set of ids of that moment.
C10_WildcardIsGlobal ==
    \A g \in live : \A i \in DOMAIN queries[g] :
       LET q == queries[g][i]
       IN  (IsAllWild(q.pat) /\ ~q.emitTriples) =>
              /\ q.out = SubSeq(allSeen[g], q.born + 1, Len(allSeen[g]))
              /\ Len(allSeen[g]) = Cardinality(Ids(g))
              /\ Len(q.out) = Cardinality(Ids(g)) - q.born
              /\ \A k \in 1..Len(q.out) : q.out[k] = FirstIds(g, q.born + k)

\* An all-wildcard query made after an insertion that has seen two more
\* insertions and then a rejected duplicate.
C10_Witness ==
    /\ last.op = "addTriple" /\ ~last.ret
    /\ \E i \in DOMAIN queries[last.st] :
          LET q == queries[last.st][i]
          IN  /\ IsAllWild(q.pat) /\ ~q.emitTriples
              /\ q.born >= 1
              /\ Len(q.out) >= 2

\* The ids of the facts of store g that match pattern pat: every concrete
\* value of the pattern is structurally equal to the fact's field.
MatchIds(g, pat) ==
    {id \in Ids(g) :
        \A f \in 1..3 : pat[f] = Wild \/ equiv(triples[g][id][f], pat[f])}

\* What the i-th query of store g emitted during the latest call.
NewOut(g, i) ==
    IF i \in DOMAIN pre.queries[g]
    THEN SubSeq(queries[g][i].out, Len(pre.queries[g][i].out) + 1,
                Len(queries[g][i].out))
    ELSE queries[g][i].out

\* C11: every set a pattern query with a concrete field emits, whatever
\* triggered the emission, is the set of the ids (the triples, with
\* emitTriples) of the stored facts that match the pattern at that moment.
C11_IntersectionExact ==
    \A g \in live : \A i \in DOMAIN queries[g] :
       LET q == queries[g][i]
       IN  ~IsAllWild(q.pat) =>
              \A k \in DOMAIN NewOut(g, i) :
                 NewOut(g, i)[k] =
                    IF q.emitTriples
                    THEN {triples[g][id] : id \in MatchIds(g, q.pat)}
                    ELSE MatchIds(g, q.pat)

\* The statement of C11 for the patterns of primitive values only.
PrimitivePatternsExact ==
    \A g \in live : \A i \in DOMAIN queries[g] :
       LET q == queries[g][i]
       IN  (~IsAllWild(q.pat) /\ \A f \in 1..3 : q.pat[f] \notin ObjectRefs) =>
              \A k \in DOMAIN NewOut(g, i) :
                 NewOut(g, i)[k] =
                    IF q.emitTriples
                    THEN {triples[g][id] : id \in MatchIds(g, q.pat)}
                    ELSE MatchIds(g, q.pat)

\* The query the latest call constructed on store g (the last of the list).
Newest(g) == queries[g][Len(queries[g])]

\* C12: a pattern query with a concrete field constructed while the store
\* holds facts that match its pattern has emitted when addPatternQuery
\* returns, and what it emitted is the non-empty set of the matching facts.
C12_LateReplay ==
    (last.op = "addPatternQuery" /\ ~IsAllWild(last.arg[1])) =>
       LET g == last.st
           q == Newest(g)
       IN  MatchIds(g, q.pat) # {} =>
              /\ q.out # <<>>
              /\ q.out[Len(q.out)] =
                    IF q.emitTriples
                    THEN {triples[g][id] : id \in MatchIds(g, q.pat)}
                    ELSE MatchIds(g, q.pat)

\* The statement of C12 for the patterns of primitive values only.
PrimitivePatternsReplay ==
    (/\ last.op = "addPatternQuery"
     /\ ~IsAllWild(last.arg[1])
     /\ \A f \in 1..3 : last.arg[1][f] \notin ObjectRefs) =>
       LET g == last.st
           q == Newest(g)
       IN  MatchIds(g, q.pat) # {} =>
              /\ q.out # <<>>
              /\ \A k \in DOMAIN q.out : q.out[k] =
                    IF q.emitTriples
                    THEN {triples[g][id] : id \in MatchIds(g, q.pat)}
                    ELSE MatchIds(g, q.pat)

\* Triple t matches pattern pat.
Matches(t, pat) == \A f \in 1..3 : pat[f] = Wild \/ equiv(t[f], pat[f])

\* C13: when addTriple(t) has returned true, every pattern query that
\* existed when it was called and whose pattern t matches has emitted,
\* during the call, a result that contains t: its id, or the triple with
\* emitTriples.
C13_SynchronousResponse ==
    (last.op = "addTriple" /\ last.ret) =>
       LET g == last.st
           t == last.arg[1]
           id == pre.NEXT_ID
       IN  \A i \in DOMAIN pre.queries[g] :
              Matches(t, queries[g][i].pat) =>
                 \E k \in DOMAIN NewOut(g, i) :
                    IF queries[g][i].emitTriples
                    THEN t \in NewOut(g, i)[k]
                    ELSE id \in NewOut(g, i)[k]

\* A query with a wildcard field, constructed when the index held no set for
\* its subject, has emitted the first fact inserted under that subject.
C13_Witness ==
    /\ last.op = "addTriple" /\ last.ret
    /\ \E i \in DOMAIN pre.queries[last.st] :
          LET q == queries[last.st][i]
          IN  /\ q.src = "sync"
              /\ q.pat[3] = Wild
              /\ Matches(last.arg[1], q.pat)
              /\ q.born = 0
              /\ Cardinality(Under(indexS[last.st], last.arg[1][1])) = 1
              /\ Len(NewOut(last.st, i)) >= 1

\* C14: addParamQuery with a pattern without query variable throws, and
\* has then built nothing: the selection caches, the number of selection
\* subscriptions constructed, the queries subscribed to the channels and
\* what they hold and emitted, and the fact base are as they were before
\* the call.
C14_NoVariableFailsFirst ==
    (last.op = "addParamQuery" /\ ~HasResolver(last.arg[1])) =>
       /\ last.err
       /\ Snapshot = pre

\* A failed addParamQuery on a store that holds a fact and a parametric
\* query.
C14_Witness ==
    /\ last.op = "addParamQuery" /\ last.err
    /\ Ids(last.st) # {}
    /\ queries[last.st] # <<>>

\* Record rec binds the variables of pattern pat to the values of triple f:
\* its names are the variable names of the pattern and each name has the
\* value of f in a position where the variable stands.
BindsTo(rec, pat, f) ==
    /\ DOMAIN rec = VarNames(pat)
    /\ \A name \in VarNames(pat) : \E i \in VarPos(pat, name) : rec[name] = f[i]

\* C15: a parametric query emits one solution set per triple set of its
\* pattern query; the solution set has as many records as the triple set has
\* triples, also when records are equal; every record binds the variables to
\* the values of one of the triples and every triple has its record.
C15_OneSolutionPerTriple ==
    \A g \in live : \A i \in DOMAIN queries[g] :
       LET q == queries[g][i]
       IN  q.param # NoParam =>
              /\ Len(q.sols) = Len(q.out)
              /\ \A k \in DOMAIN q.sols :
                    /\ BagCardinality(q.sols[k]) = Cardinality(q.out[k])
                    /\ \A rec \in DOMAIN q.sols[k] :
                          \E f \in q.out[k] : BindsTo(rec, q.param, f)
                    /\ \A f \in q.out[k] :
                          \E rec \in DOMAIN q.sols[k] : BindsTo(rec, q.param, f)

\* A solution set in which two triples gave equal records.
C15_Witness ==
    \E g \in live : \E i \in DOMAIN queries[g] :
       \E k \in DOMAIN queries[g][i].sols :
          \E rec \in DOMAIN queries[g][i].sols[k] :
             /\ queries[g][i].sols[k][rec] = 2
             /\ Cardinality(queries[g][i].out[k]) = 2

\* C16: the join channel has never emitted an empty set, and a delivery
\* from either input after which the join of the two latest values has no
\* record has added no emission.
C16_JoinSuppression ==
    /\ \A k \in DOMAIN joinNode.out : joinNode.out[k] # {}
    /\ (last.op = "push" /\ joinNode.a.has /\ joinNode.b.has
          /\ \A ra \in joinNode.a.val : \A rb \in joinNode.b.val :
                ra.y # rb.y) =>
          joinNode.out = pre.joinNode.out

\* After a non-empty join was emitted, a delivery of non-empty solution
\* sets that share no value of y has been suppressed.
C16_Witness ==
    /\ last.op = "push"
    /\ joinNode.a.val # {} /\ joinNode.b.val # {}
    /\ \A ra \in joinNode.a.val : \A rb \in joinNode.b.val : ra.y # rb.y
    /\ Len(joinNode.out) >= 1
    /\ joinNode.out = pre.joinNode.out

\* The (field, key) pairs of store g that have a cached selection.
CachedPairs(g) ==
    {fk \in (1..3) \X UNION {DOMAIN indexSelections[g][f] : f \in 1..3} :
        fk[2] \in DOMAIN indexSelections[g][fk[1]]}

\* C17: a call never removes or replaces a cached selection subscription;
\* as many were constructed as there are cached (field, key) pairs, each
\* pair with an instance of its own; every query holds, for each concrete
\* field, the instance cached under its key; addTriple, new or duplicate,
\* leaves the caches' instances as they are.  Keys are compared as the cache
\* (a Map) compares them.
C17_SelectionCacheIdentity ==
    \A g \in Stores :
       /\ \A f \in 1..3 : \A key \in DOMAIN pre.indexSelections[g][f] :
             /\ key \in DOMAIN indexSelections[g][f]
             /\ indexSelections[g][f][key].inst = pre.indexSelections[g][f][key].inst
       /\ selMade[g] = Cardinality(CachedPairs(g))
       /\ \A fk, hk \in CachedPairs(g) :
             fk # hk => indexSelections[g][fk[1]][fk[2]].inst
                          # indexSelections[g][hk[1]][hk[2]].inst
       /\ \A i \in DOMAIN queries[g] : \A f \in 1..3 :
             LET q == queries[g][i]
             IN  (q.src = "sync" /\ q.pat[f] # Wild) =>
                    /\ q.pat[f] \in DOMAIN indexSelections[g][f]
                    /\ q.sel[f] = indexSelections[g][f][q.pat[f]].inst
       /\ (last.op = "addTriple" /\ last.st = g) =>
             /\ selMade[g] = pre.selMade[g]
             /\ \A f \in 1..3 :
                   DOMAIN indexSelections[g][f] = DOMAIN pre.indexSelections[g][f]

\* A duplicate insertion on a store with two queries that requested the same
\* predicate key, the second one after an insertion.
C17_Witness ==
    /\ last.op = "addTriple" /\ ~last.ret
    /\ LET g == last.st
       IN  /\ Len(queries[g]) >= 2
           /\ queries[g][1].sel[2] = queries[g][2].sel[2]
           /\ queries[g][1].sel[2] # 0
           /\ queries[g][2].born >= 1

\* The index map of field f of store g, and the field of a channel.
IndexAt(g, f) == IF f = 1 THEN indexS[g] ELSE IF f = 2 THEN indexP[g] ELSE indexO[g]

\* C18: a key of a field index stays bound to the Set object it was first
\* bound to, and no two keys share an object; no Set object is dropped or
\* loses an id; the index shows under each key the current contents of the
\* key's object, and the global set is the one object made by the
\* constructor; every emission carries the object itself, the global set on
\* ALL and the object bound to the event's key on S, P and O, so the object
\* now holds at least what it held when emitted, and every insertion has
\* added its id to the objects bound to its three values.
C18_SharedSets ==
    \A g \in Stores :
       /\ \A f \in 1..3 : \A k \in DOMAIN pre.bound[g][f] :
             k \in DOMAIN bound[g][f] /\ bound[g][f][k] = pre.bound[g][f][k]
       /\ \A f \in 1..3 : \A k, l \in DOMAIN bound[g][f] :
             k # l => bound[g][f][k] # bound[g][f][l]
       /\ \A obj \in DOMAIN pre.heap[g] :
             obj \in DOMAIN heap[g] /\ pre.heap[g][obj] \subseteq heap[g][obj]
       /\ \A f \in 1..3 :
             /\ DOMAIN IndexAt(g, f) = DOMAIN bound[g][f]
             /\ \A k \in DOMAIN bound[g][f] :
                   /\ bound[g][f][k] \in DOMAIN heap[g]
                   /\ IndexAt(g, f)[k] = heap[g][bound[g][f][k]]
       /\ allIDs[g] = heap[g][0]
       /\ (last.st = g /\ last.op \in {"addTriple", "addTriples", "new"}) =>
             /\ Len(emittedObj) = Len(emitted)
             /\ \A i \in DOMAIN emitted :
                   /\ emittedObj[i] =
                         IF emitted[i].ch = "ALL" THEN 0
                         ELSE bound[g][FieldOf(emitted[i].ch)][emitted[i].key]
                   /\ emitted[i].index \subseteq heap[g][emittedObj[i]]
             /\ \A id \in NewIds(g) : \A f \in 1..3 :
                   id \in heap[g][bound[g][f][triples[g][id][f]]]

\* An insertion under a predicate that already had its Set object: the
\* object is the one bound before and now holds two ids.
C18_Witness ==
    /\ last.op = "addTriple" /\ last.ret
    /\ LET g == last.st
           k == last.arg[1][2]
       IN  /\ k \in DOMAIN pre.bound[g][2]
           /\ emittedObj[3] = pre.bound[g][2][k]
           /\ Cardinality(heap[g][emittedObj[3]]) >= 2
           /\ Cardinality(pre.heap[g][emittedObj[3]]) >= 1

\* The current contents of the set that input f of a sync node holds.
HeldSet(g, f, ref) ==
    IF ref.t = "all" THEN allIDs[g]
    ELSE IF ref.key \in DOMAIN IndexAt(g, f) THEN IndexAt(g, f)[ref.key] ELSE {}

\* The sources of a query of pattern pat that deliver during the insertion
\* of triple t: the global channel feeds every wildcard field, a field
\* channel the selection of a key the triple's value is equiv to.
Delivering(t, pat) ==
    {f \in 1..3 : pat[f] = Wild \/ equiv(t[f], pat[f])}

C20_EmptyIsEmitted ==
    /\ \A g \in live : \A i \in DOMAIN queries[g] :
          LET q == queries[g][i]
          IN  (/\ q.src = "sync"
               /\ \A f \in 1..3 :
                     q.pat[f] = Wild \/ q.pat[f] \in DOMAIN IndexAt(g, f)
               /\ MatchIds(g, q.pat) = {}) =>
                 /\ q.out # <<>>
                 /\ q.out[Len(q.out)] = {}
    /\ last.op \in {"addTriple", "addPatternQuery"} => ~last.err

\* A query with a wildcard field, constructed when its subject and its
\* predicate had facts but no fact had both, has emitted the empty set.
C20_Witness ==
    \E g \in live : \E i \in DOMAIN queries[g] :
       LET q == queries[g][i]
       IN  /\ q.src = "sync" /\ q.pat[3] = Wild
           /\ q.pat[1] \in DOMAIN indexS[g] /\ q.pat[2] \in DOMAIN indexP[g]
           /\ MatchIds(g, q.pat) = {}
           /\ q.out # <<>> /\ q.out[Len(q.out)] = {}
           /\ q.born >= 2

\* The records over the names x, y and z whose part over x and y is a
\* solution of a and whose part over y and z is a solution of b.
Merged(a, b) ==
    LET vals == UNION {{r.x, r.y} : r \in a} \cup UNION {{r.y, r.z} : r \in b}
    IN  {r \in [{"x", "y", "z"} -> vals] :
            /\ [x |-> r.x, y |-> r.y] \in a
            /\ [y |-> r.y, z |-> r.z] \in b}

\* The input of the join other than side.
OtherSide(side) == IF side = "a" THEN "b" ELSE "a"

\* C21: the join channel has emitted nothing while one of its inputs has
\* not delivered; a delivery from either input replaces the held value of
\* that input only, and once both inputs have delivered it adds exactly one
\* emission, the merged records of the two held values, when there is such
\* a record, and none otherwise.
C21_JoinOfLatest ==
    /\ (joinNode.made /\ ~(joinNode.a.has /\ joinNode.b.has)) =>
          joinNode.out = <<>>
    /\ (last.op = "push") =>
          /\ joinNode[last.st] = Value(last.arg[1])
          /\ joinNode[OtherSide(last.st)] = pre.joinNode[OtherSide(last.st)]
          /\ (joinNode.a.has /\ joinNode.b.has) =>
                LET m == Merged(joinNode.a.val, joinNode.b.val)
                IN  joinNode.out =
                       IF m # {} THEN Append(pre.joinNode.out, m)
                       ELSE pre.joinNode.out

\* Both inputs had delivered before, and a further delivery from input b
\* added a second emission, a join of two merged records.
C21_Witness ==
    /\ last.op = "push" /\ last.st = "b"
    /\ pre.joinNode.a.has /\ pre.joinNode.b.has
    /\ Len(pre.joinNode.out) = 1
    /\ Len(joinNode.out) = 2
    /\ joinNode.out[2] = {[x |-> "a", y |-> "b", z |-> "e"],
                          [x |-> "c", y |-> "d", z |-> "f"]}
    /\ joinNode.out[2] # joinNode.out[1]

\* C22: at each of the four emissions of an addTriple(t) that returned true
\* a subscriber that reads the store finds t in the fact table under the
\* new id, the id in the index sets of the three fields of t and in the
\* global set, and has(t) true; every id of the emitted set is then an id of
\* a stored triple, the triples it resolves to are as many as the ids, and a
\* query that resolves the global channel has emitted as many triples as
\* the global set had ids.
C22_MutationBeforeNotification ==
    (last.op = "addTriple" /\ last.ret) =>
       LET g == last.st
           t == last.arg[1]
       IN  /\ Len(emitted) = 4
           /\ Len(observed) = 4
           /\ \A k \in 1..4 :
                 LET v == observed[k]
                 IN  /\ v.table /\ v.inS /\ v.inP /\ v.inO /\ v.inAll
                     /\ v.has
                     /\ v.defined
                     /\ v.resolved = Cardinality(emitted[k].index)
           /\ \A i \in DOMAIN queries[g] :
                 LET q == queries[g][i]
                 IN  (q.src = "ALL" /\ q.emitTriples) =>
                        /\ Len(q.out) = Len(pre.queries[g][i].out) + 1
                        /\ Cardinality(q.out[Len(q.out)]) =
                              Cardinality(emitted[1].index)
                        /\ t \in q.out[Len(q.out)]

\* The third fact of a store went in while a query resolved the global
\* channel to triples: it emitted three triples.
C22_Witness ==
    /\ last.op = "addTriple" /\ last.ret
    /\ Len(observed) = 4
    /\ observed[1].resolved = 3
    /\ \E i \in DOMAIN queries[last.st] :
          LET q == queries[last.st][i]
          IN  /\ q.src = "ALL" /\ q.emitTriples
              /\ Len(q.out) >= 1
              /\ Cardinality(q.out[Len(q.out)]) = 3

\* C23: an addTriple call that returned false has emitted nothing on the
\* four channels of the store, and nothing downstream of them has moved:
\* every pattern query and every parametric query
\* holds the inputs and has emitted the values and the solutions (the
\* inputs of a join) it had before the call, and so do the selections and
\* the direct subscriptions of the global channel.
C23_SilentDuplicate ==
    (last.op = "addTriple" /\ ~last.ret) =>
       LET g == last.st
       IN  /\ emitted = <<>>
           /\ queries[g] = pre.queries[g]
           /\ allSeen[g] = pre.allSeen[g]
           /\ indexSelections[g] = pre.indexSelections[g]

\* A duplicate was rejected while a pattern query and a parametric query
\* that both match it, and both have emitted before, were subscribed.
C23_Witness ==
    /\ last.op = "addTriple" /\ ~last.ret
    /\ \E i, j \in DOMAIN queries[last.st] :
          LET q == queries[last.st][i]
              r == queries[last.st][j]
          IN  /\ q.param = NoParam /\ r.param # NoParam
              /\ Matches(last.arg[1], q.pat)
              /\ Len(q.out) >= 1 /\ q.out[Len(q.out)] # {}
              /\ Len(r.sols) >= 1 /\ r.sols[Len(r.sols)] # <<>>

\* The channels of the four emissions of an insertion, in program order.
Channels == <<"ALL", "S", "P", "O">>

\* The contents store g now has in the set emission e carried.
CarriedSet(g, e) ==
    IF e.ch = "ALL" THEN allIDs[g]
    ELSE Under(IndexOf(Graph(g), FieldOf(e.ch)), e.key)

\* After an addTriple(t) that returned true and whose emission number at a
\* subscriber answered with addTriple(t2): the outer fact is stored under
\* the id the counter had; a nested call that returned true has stored t2
\* under the next id and made its four emissions between emission at and
\* the remaining emissions of the outer call, and every emission carried
\* its set as it was when it was made, so with the nested id from the
\* nested call on; a nested call that returned
\* false has stored and emitted nothing; each index set holds exactly the
\* ids of the facts with its key in its field, and the global set exactly
\* the ids of the fact table.
ReentrantEffect ==
    (last.op = "addTripleNested" /\ last.ret) =>
       LET g == last.st
           t == last.arg[1]
           t2 == last.arg[2]
           at == last.arg[3]
           id == pre.NEXT_ID
       IN  /\ last.arg[4]
           /\ triples[g][id] = t
           /\ last.arg[5] =>
                 /\ NEXT_ID = pre.NEXT_ID + 2
                 /\ Ids(g) = DOMAIN pre.triples[g] \cup {id, id + 1}
                 /\ triples[g][id + 1] = t2
                 /\ [k \in 1..8 |-> emitted[k].ch] =
                       SubSeq(Channels, 1, at) \o Channels
                          \o SubSeq(Channels, at + 1, 4)
                 /\ \A k \in 1..8 :
                       emitted[k].index =
                          IF k > at THEN CarriedSet(g, emitted[k])
                          ELSE CarriedSet(g, emitted[k]) \ {id + 1}
           /\ ~last.arg[5] =>
                 /\ NEXT_ID = pre.NEXT_ID + 1
                 /\ Ids(g) = DOMAIN pre.triples[g] \cup {id}
                 /\ [k \in 1..4 |-> emitted[k].ch] = Channels
                 /\ Len(emitted) = 4
           /\ \A v \in Subjects : Under(indexS[g], v) = IdsWith(g, 1, v)
           /\ \A v \in Predicates : Under(indexP[g], v) = IdsWith(g, 2, v)
           /\ \A v \in Objects : Under(indexO[g], v) = IdsWith(g, 3, v)
           /\ allIDs[g] = Ids(g)

\* No two ids of store g held structurally-equal triples when the latest
\* call began.
NoEqualFactsBefore(g) ==
    \A i, j \in DOMAIN pre.triples[g] :
       i # j => ~equivTriple(pre.triples[g][i], pre.triples[g][j])

\* C24: after an addTriple whose emission a subscriber answered with a
\* nested addTriple on the same store, on a store that held no fact twice,
\* the nested fact has its own larger id and the emissions are in the order
\* of ReentrantEffect, the index sets and the global set are exact, and no
\* two ids refer to structurally-equal triples.
C24_ReentrantInsertion ==
    /\ ReentrantEffect
    /\ (last.op = "addTripleNested" /\ last.ret /\ NoEqualFactsBefore(last.st)) =>
          \A i, j \in Ids(last.st) :
             i # j => ~equivTriple(triples[last.st][i], triples[last.st][j])

\* The same with facts compared as the index maps compare keys: no triple
\* is stored under two ids.
ReentrantNoFactTwice ==
    (last.op = "addTripleNested" /\ last.ret) =>
       \A i, j \in Ids(last.st) :
          i # j => triples[last.st][i] # triples[last.st][j]

\* A nested call with a new triple, made from the second emission of the
\* outer call while a query was subscribed, has returned true.
ReentrantNew ==
    /\ last.op = "addTripleNested" /\ last.ret
    /\ last.arg[3] = 2 /\ last.arg[5]
    /\ Len(emitted) = 8
    /\ queries[last.st] # <<>>

\* A nested call with the triple of the outer call has returned false.
ReentrantSame ==
    /\ last.op = "addTripleNested" /\ last.ret
    /\ last.arg[1] = last.arg[2] /\ ~last.arg[5]

\* The operations that only read the facts.
ReadOnlyOps == {"has", "addPatternQuery", "addParamQuery", "addQueryJoin"}

\* C25: a call of has, addPatternQuery, addParamQuery or addQueryJoin has
\* left the fact table, the three index maps with the contents of every
\* set, the Set objects, the global set and the counter as they were and
\* has emitted nothing on the channels of the store; has and addQueryJoin
\* have left every field of the store as it was, and a query construction
\* has changed nothing but the selection caches and the subscribers (the
\* queries), which an addParamQuery that threw has left alone too.
C25_ReadOnlyOperations ==
    (last.op \in ReadOnlyOps) =>
       LET g == last.st
       IN  /\ NEXT_ID = pre.NEXT_ID
           /\ \A h \in Stores :
                 /\ triples[h] = pre.triples[h]
                 /\ indexS[h] = pre.indexS[h]
                 /\ indexP[h] = pre.indexP[h]
                 /\ indexO[h] = pre.indexO[h]
                 /\ allIDs[h] = pre.allIDs[h]
                 /\ heap[h] = pre.heap[h]
                 /\ bound[h] = pre.bound[h]
                 /\ allSeen[h] = pre.allSeen[h]
                 /\ h # g => Graph(h) = Before(h)
           /\ emitted = <<>>
           /\ (last.op \in {"has", "addQueryJoin"} \/ last.err) =>
                 Graph(g) = Before(g)

\* A query was made on a store with a fact for a key that no fact has, and
\* the selection cache grew.
C25_Witness ==
    /\ last.op = "addPatternQuery"
    /\ Ids(last.st) # {}
    /\ \E f \in 1..3 :
          /\ last.arg[1][f] # Wild
          /\ last.arg[1][f] \notin DOMAIN IndexOf(Graph(last.st), f)
    /\ selMade[last.st] > pre.selMade[last.st]
    /\ indexSelections[last.st] # pre.indexSelections[last.st]
====
